---- MODULE Spec2Model ----
(***************************************************************************)
(* Model of scripts/package_skill.py: the command line entry point and     *)
(* package_skill(), run against a small file system.                       *)
(*                                                                         *)
(* A file or directory name is a sequence of characters, a path is a       *)
(* sequence of names counted from the file system root, and the file       *)
(* system is a function from the existing paths to their nodes.  A file's  *)
(* data is a sequence of records; st_size is the number of records.  A zip *)
(* archive on disk is one "local" record per member written, followed, once*)
(* the archive is closed, by one "central" record per member and an "end"  *)
(* record.  No symbolic links are modelled.                                *)
(***************************************************************************)
EXTENDS Integers, Sequences, FiniteSets, TLC

\* ------------------------------------------------------------------------
\* Bounds
\* ------------------------------------------------------------------------
MaxFiles == 3      \* files present in the file system before the first run
MaxRuns == 2       \* consecutive invocations of the script

\* ------------------------------------------------------------------------
\* Names
\* ------------------------------------------------------------------------
SKILL_MD == <<"S", "K", "I", "L", "L", ".", "m", "d">>
DOT_SKILL == <<".", "s", "k", "i", "l", "l">>
DIST == <<"d", "i", "s", "t">>
DOT == <<".">>
DOTDOT == <<".", ".">>
W == <<"w">>
DEMO == <<"d", "e", "m", "o">>
OTHERS == <<"o", "t", "h", "e", "r">>
ENV == <<".", "e", "n", "v">>
ASSETS == <<"a", "s", "s", "e", "t", "s">>
LOGO == <<"l", "o", "g", "o", ".", "p", "n", "g">>
GIT == <<".", "g", "i", "t">>
CONFIG == <<"c", "o", "n", "f", "i", "g">>
CACHE == <<".", "c", "a", "c", "h", "e">>
TMP == <<"t", "m", "p">>
NOTES == <<"n", "o", "t", "e", "s", ".", "t", "x", "t">>
X == <<"x">>
PROG == <<"p", "a", "c", "k", "a", "g", "e", "_", "s", "k", "i", "l", "l", ".", "p", "y">>

\* the current working directory of the process
Cwd == <<W>>

\* Python's None, as a path-shaped value no real path equals
None == << <<"N", "o", "n", "e">>, <<>> >>

\* ------------------------------------------------------------------------
\* pathlib
\* ------------------------------------------------------------------------
Last(s) == s[Len(s)]

\* PurePath.parent: the root is its own parent
Parent(p) == IF p = <<>> THEN <<>> ELSE SubSeq(p, 1, Len(p) - 1)

\* PurePath.name: the final component, empty for the root
PathName(p) == IF p = <<>> THEN <<>> ELSE Last(p)

IsPrefix(a, b) == Len(a) <= Len(b) /\ SubSeq(b, 1, Len(a)) = a

\* all the paths from the root down to p, p included
Prefixes(p) == {SubSeq(p, 1, i) : i \in 0..Len(p)}

\* a command line path argument: abs says whether it starts with "/"
PathArg(abs, parts) == [abs |-> abs, parts |-> parts]

RECURSIVE Normalize(_, _)
\* fold the components of a path onto an absolute base: "." is dropped,
\* ".." removes the last component (none at the root)
Normalize(base, parts) ==
    IF parts = <<>> THEN base
    ELSE IF Head(parts) = DOT THEN Normalize(base, Tail(parts))
    ELSE IF Head(parts) = DOTDOT THEN Normalize(Parent(base), Tail(parts))
    ELSE Normalize(Append(base, Head(parts)), Tail(parts))

\* Path(arg).resolve(): absolute, "." and ".." folded (no symbolic links)
Resolve(arg) == Normalize(IF arg.abs THEN <<>> ELSE Cwd, arg.parts)

\* PurePath.relative_to(base), defined when base is a prefix of p
RelativeTo(p, base) == SubSeq(p, Len(base) + 1, Len(p))

\* str.startswith(".")
StartsWithDot(name) == Len(name) > 0 /\ name[1] = "."

\* ------------------------------------------------------------------------
\* File system
\* ------------------------------------------------------------------------
Dir == [kind |-> "dir", data |-> <<>>]
File(data) == [kind |-> "file", data |-> data]

Raw(tag) == [tag |-> tag, name |-> <<>>]
Member(tag, arcname) == [tag |-> tag, name |-> arcname]

\* content of an ordinary file, and of a .skill file left by an earlier build
Text == <<Raw("raw")>>
OldArchive == <<Raw("old"), Raw("old")>>

Exists(f, p) == p \in DOMAIN f
IsDir(f, p) == p \in DOMAIN f /\ f[p].kind = "dir"
IsFile(f, p) == p \in DOMAIN f /\ f[p].kind = "file"

\* os.scandir(d): the paths of the entries directly inside d
ScanDir(f, d) == {p \in DOMAIN f : Len(p) = Len(d) + 1 /\ Parent(p) = d}

\* os.stat(p).st_size
StatSize(f, p) == Len(f[p].data)

\* the member names a zip reader lists: those of the central directory
IsCentral(r) == r.tag = "central"
ArchiveNames(data) ==
    LET c == SelectSeq(data, IsCentral) IN [i \in 1..Len(c) |-> c[i].name]

SeqToSet(s) == {s[i] : i \in 1..Len(s)}

\* the files the file system may hold before the first run: the skill demo
\* with a manifest (or a directory in its place, holding a directory named
\* like the archive), hidden and nested entries, an output directory with
\* an older archive and an unrelated file, and a second skill of the same
\* name elsewhere
CandidateFiles ==
    { <<W, DEMO, SKILL_MD>>,
      <<W, DEMO, SKILL_MD, DEMO \o DOT_SKILL, X>>,
      <<W, DEMO, ENV>>,
      <<W, DEMO, ASSETS, LOGO>>,
      <<W, DEMO, GIT, CONFIG>>,
      <<W, DEMO, ASSETS, CACHE, TMP>>,
      <<W, DIST, DEMO \o DOT_SKILL>>,
      <<W, DIST, NOTES>>,
      <<W, OTHERS, DEMO, SKILL_MD>> }

\* no file lies below another file
Consistent(S) == \A p, q \in S : p # q => ~IsPrefix(p, q)

InitialData(p) == IF Last(p) = DEMO \o DOT_SKILL THEN OldArchive ELSE Text

\* the file system holding exactly the files S, their ancestor directories
\* and the working directory
MakeFs(S) ==
    LET dirs == UNION {Prefixes(Parent(p)) : p \in S} \cup Prefixes(Cwd)
    IN  [p \in S \cup dirs |-> IF p \in S THEN File(InitialData(p)) ELSE Dir]

InitialFileSystems ==
    {MakeFs(S) : S \in {T \in SUBSET CandidateFiles :
                            Cardinality(T) <= MaxFiles /\ Consistent(T)}}

\* the command lines, sys.argv: no argument; the skill alone, as a relative
\* path and as an absolute path with ".." and "."; another directory of the
\* same name; the skill with an output directory inside the source tree, and
\* with the manifest's path as output directory
ProgArg == PathArg(FALSE, <<PROG>>)
DemoArg == PathArg(FALSE, <<DEMO>>)
CommandLines ==
    { <<ProgArg>>,
      <<ProgArg, DemoArg>>,
      <<ProgArg, PathArg(TRUE, <<W, OTHERS, DOTDOT, DEMO, DOT>>)>>,
      <<ProgArg, PathArg(FALSE, <<OTHERS, DEMO>>)>>,
      <<ProgArg, DemoArg, PathArg(FALSE, <<DEMO, DIST>>)>>,
      <<ProgArg, DemoArg, PathArg(FALSE, <<DEMO, SKILL_MD>>)>> }

\* ------------------------------------------------------------------------
\* The operations of package_skill
\* ------------------------------------------------------------------------
\* a check of the source directory where the manifest was meant
ManifestExistsDirOnly(f, sp) == Exists(f, sp)

\* (skill_path / "SKILL.md").exists()
ManifestExists(f, sp) == Exists(f, Append(sp, SKILL_MD))

\* the archive named after the output directory instead of the skill
OutputFileDirName(dir, name) == Append(dir, PathName(dir) \o DOT_SKILL)

\* output_dir / f"{skill_name}.skill"
OutputFile(dir, name) == Append(dir, name \o DOT_SKILL)

\* output_dir.mkdir(parents=True, exist_ok=True) raises when the directory
\* or one of its ancestors exists and is not a directory
MkdirOk(f, d) == \A q \in Prefixes(d) : Exists(f, q) => IsDir(f, q)

\* ... and otherwise creates the directory and its missing ancestors
Mkdir(f, d) ==
    [q \in DOMAIN f \cup Prefixes(d) |-> IF q \in DOMAIN f THEN f[q] ELSE Dir]

\* the archive opened in mode "a": an existing file keeps its members
IsMemberData(r) == r.tag \notin {"central", "end"}
ZipOpenAppend(f, p) ==
    [fs |-> [q \in DOMAIN f \cup {p} |->
                IF q # p THEN f[q]
                ELSE IF IsFile(f, p) THEN File(SelectSeq(f[p].data, IsMemberData))
                ELSE File(<<>>)],
     filelist |-> IF IsFile(f, p) THEN ArchiveNames(f[p].data) ELSE <<>>]

\* zipfile.ZipFile(output_file, "w"): the file is created or truncated and
\* the archive starts without members
ZipOpen(f, p) ==
    [fs |-> [q \in DOMAIN f \cup {p} |-> IF q = p THEN File(<<>>) ELSE f[q]],
     filelist |-> <<>>]

\* the walk with no pruning of hidden directories
AllDirs(names) == names

\* [d for d in dirs if not d.startswith(".")]
VisibleDirs(names) == {d \in names : ~StartsWithDot(d)}

\* member names taken relative to the source directory itself
ArcnameInside(file_path, sp) == RelativeTo(file_path, sp)

\* str(file_path.relative_to(skill_path.parent))
Arcname(file_path, sp) == RelativeTo(file_path, Parent(sp))

\* ZipFile.write appends the member to the file on disk
ZipWrite(f, p, arcname) ==
    [f EXCEPT ![p].data = Append(@, Member("local", arcname))]

\* ZipFile.close appends the central directory and the end record
ZipClose(f, p, filelist) ==
    [f EXCEPT ![p].data =
        @ \o [i \in 1..Len(filelist) |-> Member("central", filelist[i])]
          \o <<Raw("end")>>]

\* the size taken before the archive is closed: the members only
IsLocal(r) == r.tag = "local"
ConfirmationBeforeClose(f, p) ==
    [kind |-> "Packaged", path |-> p,
     size |-> Len(SelectSeq(f[p].data, IsLocal))]

\* f"Packaged: {output_file} ({output_file.stat().st_size} bytes)"
Confirmation(f, p) == [kind |-> "Packaged", path |-> p, size |-> StatSize(f, p)]

\* the lines written to the error stream
ErrorLine(kind, p) == [kind |-> kind, path |-> p, size |-> 0]

\* the orders in which a set of directory entries may be enumerated
Perms(S) ==
    {s \in [1..Cardinality(S) -> S] :
        \A i, j \in 1..Cardinality(S) : i # j => s[i] # s[j]}

\* exit status of a process that has not exited
Running == -1

\* ------------------------------------------------------------------------
\* State
\* ------------------------------------------------------------------------
VARIABLES
    fs,           \* the file system
    pc,           \* position of the process
    argv,         \* sys.argv
    skill_path,   \* locals of package_skill
    output_dir,
    output_file,
    zf,           \* the ZipFile: state and member list
    stack,        \* os.walk: directories still to visit, next one first
    root,         \* os.walk: directory being visited
    dirs,         \* os.walk: its subdirectories kept for traversal
    files,        \* its files not yet handled by the inner loop
    stdout,
    stderr,
    returned,     \* value returned by package_skill
    exit_status,
    runs,         \* invocations so far
    fs0,          \* the file system when the current invocation started
    prev,         \* outcome of the previous invocation
    ioError       \* I/O errors the current invocation ran into

vars == <<fs, pc, argv, skill_path, output_dir, output_file, zf, stack, root,
          dirs, files, stdout, stderr, returned, exit_status, runs, fs0,
          prev, ioError>>

locals == <<skill_path, output_dir, output_file>>
walk == <<stack, root, dirs, files>>
history == <<runs, fs0, prev>>

NoZip == [state |-> "none", filelist |-> <<>>]
NoRun == [argv |-> <<>>, exit_status |-> Running, names |-> <<>>,
          returned |-> None]

\* what a zip reader finds at path p
NamesAt(f, p) == IF IsFile(f, p) THEN ArchiveNames(f[p].data) ELSE <<>>

\* the outcome of the invocation that has just exited
Outcome ==
    [argv |-> argv, exit_status |-> exit_status,
     names |-> NamesAt(fs, output_file), returned |-> returned]

Init ==
    /\ fs \in InitialFileSystems
    /\ pc = "idle"
    /\ argv = <<>>
    /\ skill_path = None /\ output_dir = None /\ output_file = None
    /\ zf = NoZip
    /\ stack = <<>> /\ root = None /\ dirs = {} /\ files = {}
    /\ stdout = <<>> /\ stderr = <<>>
    /\ returned = None
    /\ exit_status = Running
    /\ runs = 0
    /\ fs0 = fs
    /\ prev = NoRun
    /\ ioError = {}

\* the script is started from the shell with command line cl
Invoke(cl) ==
    /\ pc \in {"idle", "exited"}
    /\ runs < MaxRuns
    /\ runs' = runs + 1
    /\ prev' = IF pc = "exited" THEN Outcome ELSE prev
    /\ fs0' = fs
    /\ argv' = cl
    /\ pc' = "main"
    /\ skill_path' = None /\ output_dir' = None /\ output_file' = None
    /\ zf' = NoZip
    /\ stack' = <<>> /\ root' = None /\ dirs' = {} /\ files' = {}
    /\ stdout' = <<>> /\ stderr' = <<>>
    /\ returned' = None
    /\ exit_status' = Running
    /\ ioError' = {}
    /\ UNCHANGED fs

\* sys.exit(1), or an exception nobody catches: status 1 and a line on the
\* error stream
Die(line) ==
    /\ stderr' = Append(stderr, line)
    /\ exit_status' = 1
    /\ pc' = "exited"

\* __main__: len(sys.argv) < 2
UsageError ==
    /\ pc = "main"
    /\ Len(argv) < 2
    /\ Die(ErrorLine("Usage", None))
    /\ UNCHANGED <<fs, argv, locals, zf, walk, stdout, returned, history,
                   ioError>>

\* __main__ calls package_skill(skill, out), which resolves both paths
Call ==
    /\ pc = "main"
    /\ Len(argv) >= 2
    /\ skill_path' = Resolve(argv[2])
    /\ output_dir' = Resolve(IF Len(argv) > 2 THEN argv[3]
                                              ELSE PathArg(FALSE, <<DIST>>))
    /\ pc' = "check"
    /\ UNCHANGED <<fs, argv, output_file, zf, walk, stdout, stderr, returned,
                   exit_status, history, ioError>>

\* the manifest is missing: message and sys.exit(1)
MissingManifest ==
    /\ pc = "check"
    /\ ~ManifestExists(fs, skill_path)
    /\ Die(ErrorLine("Error: SKILL.md not found", skill_path))
    /\ UNCHANGED <<fs, argv, locals, zf, walk, stdout, returned, history,
                   ioError>>

\* the manifest is there: the output directory is created
MakeOutputDir ==
    /\ pc = "check"
    /\ ManifestExists(fs, skill_path)
    /\ MkdirOk(fs, output_dir)
    /\ fs' = Mkdir(fs, output_dir)
    /\ output_file' = OutputFile(output_dir, PathName(skill_path))
    /\ pc' = "open"
    /\ UNCHANGED <<argv, skill_path, output_dir, zf, walk, stdout, stderr,
                   returned, exit_status, history, ioError>>

\* mkdir raises FileExistsError or NotADirectoryError
MakeOutputDirFails ==
    /\ pc = "check"
    /\ ManifestExists(fs, skill_path)
    /\ ~MkdirOk(fs, output_dir)
    /\ Die(ErrorLine("Traceback", output_dir))
    /\ UNCHANGED <<fs, argv, locals, zf, walk, stdout, returned, history,
                   ioError>>

\* the with statement opens the archive and os.walk starts at skill_path
OpenArchive ==
    /\ pc = "open"
    /\ ~IsDir(fs, output_file)
    /\ fs' = ZipOpen(fs, output_file).fs
    /\ zf' = [state |-> "open", filelist |-> ZipOpen(fs, output_file).filelist]
    /\ stack' = <<skill_path>>
    /\ pc' = "walk"
    /\ UNCHANGED <<argv, locals, root, dirs, files, stdout, stderr, returned,
                   exit_status, history, ioError>>

\* open raises IsADirectoryError
OpenArchiveFails ==
    /\ pc = "open"
    /\ IsDir(fs, output_file)
    /\ Die(ErrorLine("Traceback", output_file))
    /\ UNCHANGED <<fs, argv, locals, zf, walk, stdout, returned, history,
                   ioError>>

\* a walk that does not descend into subdirectories
WalkStackFlat(order) == stack

\* os.walk resumed: the subdirectories kept by the loop body are pushed in
\* enumeration order
WalkStack(order) ==
    [i \in 1..Len(order) |-> Append(root, order[i])] \o stack

\* os.walk visits the next directory: it is listed now, its entries split
\* into directories and files, and the hidden directories are dropped
WalkYield ==
    /\ pc = "walk"
    /\ \E order \in Perms(dirs) :
        LET stk == WalkStack(order) IN
        /\ stk # <<>>
        /\ LET top == Head(stk)
               entries == ScanDir(fs, top)
           IN  /\ root' = top
               /\ dirs' = VisibleDirs({Last(p) : p \in {q \in entries : IsDir(fs, q)}})
               /\ files' = {Last(p) : p \in {q \in entries : ~IsDir(fs, q)}}
               /\ stack' = Tail(stk)
               /\ pc' = IF files' = {} THEN "walk" ELSE "files"
    /\ UNCHANGED <<fs, argv, locals, zf, stdout, stderr, returned,
                   exit_status, history, ioError>>

AfterFile(file) ==
    /\ files' = files \ {file}
    /\ pc' = IF files' = {} THEN "walk" ELSE "files"

\* inner loop: a hidden file is skipped
SkipHidden ==
    /\ pc = "files"
    /\ \E file \in files :
        /\ StartsWithDot(file)
        /\ AfterFile(file)
    /\ UNCHANGED <<fs, argv, locals, zf, stack, root, dirs, stdout, stderr,
                   returned, exit_status, history, ioError>>

\* inner loop: any other file is written to the archive
WriteFile ==
    /\ pc = "files"
    /\ \E file \in files :
        /\ ~StartsWithDot(file)
        /\ LET arcname == Arcname(Append(root, file), skill_path) IN
            /\ fs' = ZipWrite(fs, output_file, arcname)
            /\ zf' = [zf EXCEPT !.filelist = Append(@, arcname)]
        /\ AfterFile(file)
    /\ UNCHANGED <<argv, locals, stack, root, dirs, stdout, stderr, returned,
                   exit_status, history, ioError>>

\* os.walk is exhausted: the loop ends and the with statement closes the
\* archive
CloseArchive ==
    /\ pc = "walk"
    /\ \E order \in Perms(dirs) : WalkStack(order) = <<>>
    /\ fs' = ZipClose(fs, output_file, zf.filelist)
    /\ zf' = [zf EXCEPT !.state = "closed"]
    /\ pc' = "print"
    /\ UNCHANGED <<argv, locals, walk, stdout, stderr, returned, exit_status,
                   history, ioError>>

\* the confirmation line, the return, and the end of the script
Confirm ==
    /\ pc = "print"
    /\ stdout' = Append(stdout, Confirmation(fs, output_file))
    /\ returned' = output_file
    /\ exit_status' = 0
    /\ pc' = "exited"
    /\ UNCHANGED <<fs, argv, locals, zf, walk, stderr, history, ioError>>

Next ==
    \/ \E cl \in CommandLines : Invoke(cl)
    \/ UsageError
    \/ Call
    \/ MissingManifest
    \/ MakeOutputDir
    \/ MakeOutputDirFails
    \/ OpenArchive
    \/ OpenArchiveFails
    \/ WalkYield
    \/ SkipHidden
    \/ WriteFile
    \/ CloseArchive
    \/ Confirm

Spec == Init /\ [][Next]_vars

\* ------------------------------------------------------------------------
\* I/O errors
\* ------------------------------------------------------------------------
\* zf.write raises OSError: the with statement closes the archive and the
\* exception ends the process
WriteRaises ==
    /\ pc = "files"
    /\ \E file \in files : ~StartsWithDot(file)
    /\ ioError' = ioError \cup {"write"}
    /\ fs' = ZipClose(fs, output_file, zf.filelist)
    /\ zf' = [zf EXCEPT !.state = "closed"]
    /\ Die(ErrorLine("Traceback", root))
    /\ UNCHANGED <<argv, locals, walk, stdout, returned, history>>

\* os.scandir raises OSError inside os.walk, which is called without
\* onerror: the error is ignored and the directory is left out
ScandirRaises ==
    /\ pc = "walk"
    /\ \E order \in Perms(dirs) :
        LET stk == WalkStack(order) IN
        /\ stk # <<>>
        /\ stack' = Tail(stk)
    /\ dirs' = {}
    /\ ioError' = ioError \cup {"walk"}
    /\ UNCHANGED <<fs, pc, argv, locals, zf, root, files, stdout, stderr,
                   returned, exit_status, history>>

NextFault == Next \/ WriteRaises \/ ScandirRaises

SpecFault == Init /\ [][NextFault]_vars

\* ------------------------------------------------------------------------
\* Properties
\* ------------------------------------------------------------------------
Called == pc \notin {"idle", "main"} /\ Len(argv) >= 2
Succeeded == pc = "exited" /\ exit_status = 0
Manifest == Append(skill_path, SKILL_MD)
OutArg(cl) == IF Len(cl) > 2 THEN cl[3] ELSE PathArg(FALSE, <<DIST>>)
OutsideSource == ~IsPrefix(skill_path, output_dir)
Hidden(name) == name # <<>> /\ Head(name) = "."
Entries == NamesAt(fs, output_file)
DemoArchive == DEMO \o DOT_SKILL

\* C1: when the source directory has no entry named SKILL.md, the run never
\* gets past the manifest check: the file system stays as it was when the
\* script started (no output directory, an existing .skill file untouched),
\* no archive is opened, and the process ends with status 1.
C1_MissingManifest ==
    (Called /\ Manifest \notin DOMAIN fs0) =>
        /\ fs = fs0
        /\ pc \in {"check", "exited"}
        /\ zf.state = "none"
        /\ pc = "exited" => exit_status = 1 /\ stdout = <<>> /\ returned = None

C1_Witness ==
    /\ pc = "exited" /\ Len(argv) = 2
    /\ skill_path = <<W, DEMO>>
    /\ IsDir(fs0, skill_path)
    /\ Manifest \notin DOMAIN fs0
    /\ IsFile(fs, <<W, DIST, DemoArchive>>)
    /\ fs[<<W, DIST, DemoArchive>>] = File(OldArchive)
    /\ exit_status = 1

\* C2: whenever SKILL.md is not a regular file of the source directory, a
\* directory of that name included, the run fails with status 1 and no
\* archive is written.
C2_ManifestMustBeFile ==
    (Called /\ pc = "exited" /\ ~IsFile(fs0, Manifest)) =>
        exit_status = 1 /\ zf.state = "none"

\* C3: after a successful run no member's file name and no directory below
\* the source directory on a member's path begins with ".", and the walk
\* never visits a directory that lies inside a hidden one.
C3_HiddenExcluded ==
    /\ Succeeded =>
        \A i \in 1..Len(Entries) :
            \A k \in 2..Len(Entries[i]) : ~Hidden(Entries[i][k])
    /\ (Called /\ root # None) =>
        \A k \in (Len(skill_path) + 1)..Len(root) : ~Hidden(root[k])

C3_Witness ==
    /\ Succeeded
    /\ skill_path = <<W, DEMO>>
    /\ IsFile(fs0, <<W, DEMO, ENV>>)
    /\ IsFile(fs0, <<W, DEMO, GIT, CONFIG>>)
    /\ Entries = << <<DEMO, SKILL_MD>> >>

\* C4: every member name is the file's path relative to the parent of the
\* resolved source directory, so it names an existing file there and starts
\* with the source directory's name followed by at least one more component.
C4_EntriesRooted ==
    /\ \A i \in 1..Len(zf.filelist) :
        LET e == zf.filelist[i] IN
            /\ Len(e) >= 2
            /\ e[1] = Last(skill_path)
            /\ IsFile(fs, Parent(skill_path) \o e)
    /\ Succeeded => Entries = zf.filelist

C4_Witness ==
    /\ Succeeded
    /\ argv[2] = PathArg(TRUE, <<W, OTHERS, DOTDOT, DEMO, DOT>>)
    /\ \E i \in 1..Len(Entries) : Entries[i] = <<DEMO, ASSETS, LOGO>>

\* the files a package of source directory sp is to hold: those below sp
\* with no hidden component on the way
Qualifying(f, sp) ==
    {p \in DOMAIN f :
        /\ IsFile(f, p)
        /\ IsPrefix(sp, p) /\ Len(p) > Len(sp)
        /\ \A k \in (Len(sp) + 1)..Len(p) : ~Hidden(p[k])}

\* C5: with the output directory outside the source tree, the members after
\* a successful run are exactly the non-hidden files reachable through
\* non-hidden directories, each one once.
C5_ExactEntrySet ==
    (Succeeded /\ OutsideSource) =>
        /\ SeqToSet(Entries) =
             {RelativeTo(p, Parent(skill_path)) : p \in Qualifying(fs0, skill_path)}
        /\ Len(Entries) = Cardinality(Qualifying(fs0, skill_path))

C5_Witness ==
    /\ Succeeded
    /\ Len(argv) = 2
    /\ output_file = <<W, DIST, DemoArchive>>
    /\ SeqToSet(Entries) = {<<DEMO, SKILL_MD>>, <<DEMO, ASSETS, LOGO>>}
    /\ Len(Entries) = 2

\* the files of f that g does not hold with the same content
ChangedFiles(f, g) ==
    {p \in DOMAIN g : IsFile(g, p) /\ (p \notin DOMAIN f \/ f[p] # g[p])}

\* C6: a successful run writes no file but <resolved output dir>/X.skill,
\* X the final component of the resolved source directory, that file exists
\* afterwards and its path is the value returned; two successful runs whose
\* sources share X and whose output directories agree return the same path.
C6_OutputLocation ==
    Succeeded =>
        LET target == Append(Resolve(OutArg(argv)),
                             Last(Resolve(argv[2])) \o DOT_SKILL)
        IN  /\ returned = target
            /\ IsFile(fs, target)
            /\ ChangedFiles(fs0, fs) \subseteq {target}
            /\ stdout[1].path = target
            /\ (/\ prev.exit_status = 0
                /\ Last(Resolve(prev.argv[2])) = Last(Resolve(argv[2]))
                /\ Resolve(OutArg(prev.argv)) = Resolve(OutArg(argv)))
               => prev.returned = returned

C6_Witness ==
    /\ Succeeded
    /\ prev.exit_status = 0
    /\ Resolve(prev.argv[2]) = <<W, OTHERS, DEMO>>
    /\ skill_path = <<W, DEMO>>
    /\ prev.returned = <<W, DIST, DemoArchive>>
    /\ returned = <<W, DIST, DemoArchive>>

SameRunAgain ==
    /\ Called /\ pc = "exited"
    /\ prev.exit_status = 0
    /\ Resolve(prev.argv[2]) = skill_path
    /\ Resolve(OutArg(prev.argv)) = output_dir

\* C7: a run that repeats a successful run (same source, same output
\* directory outside the source) succeeds as well, leaves an archive with
\* the same members, none of them twice, and changes no other file; an
\* output directory that exists already, empty or not, does not make a run
\* fail.
C7_SecondRunOverwrites ==
    /\ (SameRunAgain /\ OutsideSource) =>
        /\ exit_status = 0
        /\ SeqToSet(Entries) = SeqToSet(prev.names)
        /\ Len(Entries) = Len(prev.names)
        /\ \A p \in DOMAIN fs0 :
            p # output_file => p \in DOMAIN fs /\ fs[p] = fs0[p]
    /\ (/\ Called /\ pc = "exited"
        /\ Manifest \in DOMAIN fs0
        /\ IsDir(fs0, output_dir)
        /\ ~IsDir(fs0, Append(output_dir, Last(skill_path) \o DOT_SKILL)))
       => exit_status = 0

C7_Witness ==
    /\ SameRunAgain /\ OutsideSource
    /\ exit_status = 0
    /\ IsFile(fs, <<W, DIST, NOTES>>)
    /\ fs[<<W, DIST, NOTES>>] = File(Text)
    /\ Len(Entries) = 2

\* C8: a confirmation line is on standard output only once the walk is
\* over and the archive is closed, it gives the archive's path and its size
\* on disk, status 0 comes with it, and status 1 comes without it.
C8_ConfirmationLast ==
    /\ stdout # <<>> =>
        /\ pc = "exited" /\ exit_status = 0
        /\ zf.state = "closed"
        /\ stack = <<>> /\ dirs = {} /\ files = {}
        /\ stdout = <<[kind |-> "Packaged", path |-> output_file,
                       size |-> Len(fs[output_file].data)]>>
    /\ exit_status = 0 => stdout # <<>>
    /\ exit_status = 1 => stdout = <<>> /\ stderr # <<>>

C8_Witness ==
    /\ Succeeded
    /\ stdout[1].size = 5
    /\ Len(Entries) = 2
    /\ zf.state = "closed"

\* C9: once an I/O error has hit the walk or a write, the run ends with the
\* archive closed, without confirmation line and without a returned path.
C9_ErrorAborts ==
    (pc = "exited" /\ ioError # {}) =>
        zf.state = "closed" /\ stdout = <<>> /\ returned = None

\* the part of C9 about writes and about the handle: whatever I/O error
\* occurred, an archive that was opened is closed when the process has
\* exited, and a run that a write error ended has status 1, no
\* confirmation line and no returned path.
WriteErrorAborts ==
    /\ (pc = "exited" /\ zf.state # "none") => zf.state = "closed"
    /\ (pc = "exited" /\ "write" \in ioError) =>
        exit_status = 1 /\ stdout = <<>> /\ returned = None

\* C10: the archive never holds a member for the archive file itself.
C10_NoSelfEntry ==
    Succeeded =>
        \A i \in 1..Len(Entries) : Parent(skill_path) \o Entries[i] # output_file

====
